---- MODULE Spec2Model ----
(***************************************************************************)
(* A model of zoomies, a DogStatsD client: the metric encoder              *)
(* (src/src/metrics.rs), the event encoder (src/src/events.rs) and the     *)
(* client that sends formatted metrics over a UDP socket (src/src/lib.rs). *)
(*                                                                         *)
(* A Rust String is a sequence of Unicode code points; a Vec<u8> or a      *)
(* &[u8] is a sequence of bytes.  Utf8 is the encoding between the two, so *)
(* that str::len (a byte count) and the number of characters differ on     *)
(* non-ASCII text.  An Option is a sequence of length at most one.         *)
(***************************************************************************)
EXTENDS Integers, Sequences, FiniteSets

VARIABLES
    ev,        \* the Event under construction (events.rs:91-114)
    called,    \* the optional-field setters called on ev since Event::new
    reordered, \* some setter was called after the setter of a later suffix
    clock,     \* the system clock (SystemTime::now), in ticks from the epoch
    outs,      \* results of Event::format on ev since ev was last changed
    panicked,  \* a format call panicked
    built,     \* the result of the last Event::build, with the builder it saw
    last,      \* for each field, the value last given to its setter, if any
    mcall,     \* the last direct call to format_metric: its input and result
    client,    \* the Client: its status (none, bound, failed) and its config
    tasks      \* the metric call each task has in flight on the Client

vars ==
    <<ev, called, reordered, clock, outs, panicked, built, last, mcall, client,
      tasks>>

eventVars == <<ev, called, reordered, clock, outs, panicked, built, last>>
clientVars == <<client, tasks>>

-----------------------------------------------------------------------------
(* Strings.                                                                *)

None == <<>>
Some(v) == <<v>>

RECURSIVE Flatten(_)
Flatten(ss) == IF ss = <<>> THEN <<>> ELSE Head(ss) \o Flatten(Tail(ss))

\* The UTF-8 encoding of one code point (char::encode_utf8).
Utf8Char(c) ==
    IF c < 128 THEN <<c>>
    ELSE IF c < 2048 THEN <<192 + (c \div 64), 128 + (c % 64)>>
    ELSE IF c < 65536 THEN
        <<224 + (c \div 4096), 128 + ((c \div 64) % 64), 128 + (c % 64)>>
    ELSE <<240 + (c \div 262144), 128 + ((c \div 4096) % 64),
           128 + ((c \div 64) % 64), 128 + (c % 64)>>

\* str::as_bytes: the UTF-8 bytes of a string.
AsBytes(s) == Flatten([i \in 1..Len(s) |-> Utf8Char(s[i])])

\* A plausible slip: one unit per character.
StrLenChars(s) == Len(s)

\* str::len / String::len: the length in bytes.
StrLen(s) == Len(AsBytes(s))

RECURSIVE NatToString(_)
NatToString(n) ==
    IF n < 10 THEN <<48 + n>>
    ELSE NatToString(n \div 10) \o <<48 + (n % 10)>>

\* Display for the integer types (to_string).
IntToString(n) ==
    IF n < 0 THEN <<45>> \o NatToString(-n) ELSE NatToString(n)

-----------------------------------------------------------------------------
(* Metrics (src/src/metrics.rs).                                           *)

\* write_count_metric_arb: name ":" amt "|c"
write_count_metric_arb(name, amt) ==
    name \o <<58>> \o IntToString(amt) \o <<124, 99>>

\* A plausible slip: -1 taken in the metric's own integer type, where an
\* unsigned type wraps it.
CountWriteDecInT(metric) ==
    CASE metric.kind = "Inc" -> write_count_metric_arb(metric.name, 1)
      [] metric.kind = "Dec" ->
            write_count_metric_arb(metric.name,
                IF metric.ty = "u8" THEN 255 ELSE -1)
      [] metric.kind = "Arb" -> write_count_metric_arb(metric.name, metric.amt)

\* impl Metric for Count: the literals 1 and -1 are typed by inference at the
\* call, not by the metric's parameter T.
CountWrite(metric) ==
    CASE metric.kind = "Inc" -> write_count_metric_arb(metric.name, 1)
      [] metric.kind = "Dec" -> write_count_metric_arb(metric.name, -1)
      [] metric.kind = "Arb" -> write_count_metric_arb(metric.name, metric.amt)

GaugeWrite(metric) == metric.name \o <<58>> \o metric.value \o <<124, 103>>

HistogramWrite(metric) == metric.name \o <<58>> \o metric.value \o <<124, 104>>

DistributionWrite(metric) == metric.name \o <<58>> \o metric.value \o <<124, 100>>

SetWrite(metric) == metric.name \o <<58>> \o metric.value \o <<124, 115>>

CountKinds == {"Inc", "Dec", "Arb"}

\* Metric::write, dispatched on the implementing type.
MetricWrite(metric) ==
    CASE metric.kind \in CountKinds -> CountWrite(metric)
      [] metric.kind = "Gauge" -> GaugeWrite(metric)
      [] metric.kind = "Histogram" -> HistogramWrite(metric)
      [] metric.kind = "Distribution" -> DistributionWrite(metric)
      [] metric.kind = "Set" -> SetWrite(metric)

\* impl Tag for T: AsRef<str>: the tag's bytes, as they are.
TagWrite(tag) == AsBytes(tag)

\* A plausible slip: the separator always emitted.
NamespacePrefixAlwaysDot(ns) == AsBytes(ns) \o <<46>>

\* format_metric, lines 171-174: the namespace and a dot, or nothing.
NamespacePrefix(ns) == IF ns # <<>> THEN AsBytes(ns) \o <<46>> ELSE <<>>

\* format_metric: prefix, the metric's write(), then each tag in turn.  The
\* writes go to a Vec<u8> and cannot fail, so the result is always Ok.
format_metric(metric, namespace, tags) ==
    NamespacePrefix(namespace)
        \o AsBytes(MetricWrite(metric))
        \o Flatten([i \in 1..Len(tags) |-> TagWrite(tags[i])])

-----------------------------------------------------------------------------
(* Events (src/src/events.rs).                                             *)

\* The resolution of the model's clock: SystemTime values are whole ticks.
TicksPerSec == 2

\* SystemTime::UNIX_EPOCH, the origin of the tick count.
UNIX_EPOCH == 0

\* SystemTime::duration_since: Ok(duration) when t is not before earlier,
\* Err otherwise.
DurationSince(t, earlier) ==
    IF t >= earlier THEN [ok |-> TRUE, d |-> t - earlier]
    ELSE [ok |-> FALSE, d |-> earlier - t]

\* SystemTime::elapsed: the time from t to now, Err when now is before t.
Elapsed(t, now) == DurationSince(now, t)

\* Duration::as_secs: the whole seconds of a duration.
AsSecs(d) == d \div TicksPerSec

\* The unwrap of line 83 panics when the clock reads a time before the epoch.
SystemTimeFormatPanics(ts, now) ==
    /\ ~DurationSince(ts, UNIX_EPOCH).ok
    /\ ~Elapsed(UNIX_EPOCH, now).ok

\* impl DatagramFormat for &SystemTime: "|d:" and the seconds since the
\* epoch, or the seconds the clock reads when the timestamp is before it.
SystemTimeFormat(ts, now) ==
    LET r == DurationSince(ts, UNIX_EPOCH)
        suffix == IF r.ok THEN AsSecs(r.d)
                  ELSE AsSecs(Elapsed(UNIX_EPOCH, now).d)
    IN <<124, 100, 58>> \o IntToString(suffix)

SourceTypeNameFormat(name) == <<124, 115, 58>> \o name

PriorityFormat(p) ==
    <<124, 112, 58>> \o
        (CASE p = "Low" -> <<108, 111, 119>>
           [] p = "Normal" -> <<110, 111, 114, 109, 97, 108>>)

AlertTypeFormat(a) ==
    <<124, 116, 58>> \o
        (CASE a = "Error" -> <<101, 114, 114, 111, 114>>
           [] a = "Info" -> <<105, 110, 102, 111>>
           [] a = "Success" -> <<115, 117, 99, 99, 101, 115, 115>>
           [] a = "Warning" -> <<119, 97, 114, 110, 105, 110, 103>>)

HostnameFormat(host) == <<124, 104, 58>> \o host

AggKeyFormat(key) == <<124, 107, 58>> \o key

\* DatagramFormat for Option<T>: the inner value's rendering, or nothing.
OptionFormat(opt, rendered) == IF opt = None THEN <<>> ELSE rendered

\* A plausible slip: a priority of Normal by default, as the field's
\* comment has it.
EventNewDefaultPriority ==
    [title |-> <<>>, text |-> <<>>, timestamp |-> None, hostname |-> None,
     agg_key |-> None, priority |-> Some("Normal"),
     source_type_name |-> None, alert_type |-> None]

\* Event::new, which is Event::default(): empty strings and None.
EventNew ==
    [title |-> <<>>, text |-> <<>>, timestamp |-> None, hostname |-> None,
     agg_key |-> None, priority |-> None,
     source_type_name |-> None, alert_type |-> None]

\* The setters.
SetTitle(e, title) == [e EXCEPT !.title = title]
SetText(e, text) == [e EXCEPT !.text = text]
SetTimestamp(e, ts) == [e EXCEPT !.timestamp = Some(ts)]
SetHostname(e, host) == [e EXCEPT !.hostname = Some(host)]
\* A plausible slip: the key stored in the field of the setter above.
SetAggKeyIntoHostname(e, key) == [e EXCEPT !.hostname = Some(key)]
SetAggKey(e, key) == [e EXCEPT !.agg_key = Some(key)]
SetPriority(e, p) == [e EXCEPT !.priority = Some(p)]
SetSourceTypeName(e, name) == [e EXCEPT !.source_type_name = Some(name)]
SetAlertType(e, a) == [e EXCEPT !.alert_type = Some(a)]

\* A plausible slip: a field left out of the copy.
EventBuildWithoutAggKey(e) ==
    [ok |-> TRUE,
     event |-> [title |-> e.title, text |-> e.text, timestamp |-> e.timestamp,
                hostname |-> e.hostname, agg_key |-> None,
                priority |-> e.priority,
                source_type_name |-> e.source_type_name,
                alert_type |-> e.alert_type]]

\* Event::build: Ok of a new Event holding a copy of every field.
EventBuild(e) ==
    [ok |-> TRUE,
     event |-> [title |-> e.title, text |-> e.text, timestamp |-> e.timestamp,
                hostname |-> e.hostname, agg_key |-> e.agg_key,
                priority |-> e.priority,
                source_type_name |-> e.source_type_name,
                alert_type |-> e.alert_type]]

\* A plausible slip: the length in characters.
ConvertLenChars(name) == <<name, StrLenChars(name)>>

\* convert_len: the string and its length in bytes.
convert_len(name) == <<name, StrLen(name)>>

\* convert_len_from_opt, for each optional field of an Event.
TimestampSuffix(e, now) ==
    convert_len(OptionFormat(e.timestamp, SystemTimeFormat(e.timestamp[1], now)))
HostnameSuffix(e) ==
    convert_len(OptionFormat(e.hostname, HostnameFormat(e.hostname[1])))
AggKeySuffix(e) ==
    convert_len(OptionFormat(e.agg_key, AggKeyFormat(e.agg_key[1])))
PrioritySuffix(e) ==
    convert_len(OptionFormat(e.priority, PriorityFormat(e.priority[1])))
AlertTypeSuffix(e) ==
    convert_len(OptionFormat(e.alert_type, AlertTypeFormat(e.alert_type[1])))
SourceTypeNameSuffix(e) ==
    convert_len(OptionFormat(e.source_type_name,
                             SourceTypeNameFormat(e.source_type_name[1])))

\* Event::format panics when its timestamp's rendering does.
EventFormatPanics(e, now) ==
    /\ e.timestamp # None
    /\ SystemTimeFormatPanics(e.timestamp[1], now)

\* A plausible slip: the suffixes pushed in the order they are computed in,
\* the alert type before the source type name.
EventFormatAsComputed(e, now) ==
    LET title == convert_len(e.title)
        text == convert_len(e.text)
    IN <<95, 101, 123>> \o IntToString(title[2]) \o <<44>>
        \o IntToString(text[2]) \o <<125, 58>>
        \o title[1] \o <<124>> \o text[1]
        \o TimestampSuffix(e, now)[1] \o HostnameSuffix(e)[1]
        \o AggKeySuffix(e)[1] \o PrioritySuffix(e)[1]
        \o AlertTypeSuffix(e)[1] \o SourceTypeNameSuffix(e)[1]

\* impl DatagramFormat for Event, lines 197-223.
EventFormat(e, now) ==
    LET title == convert_len(e.title)
        text == convert_len(e.text)
    IN <<95, 101, 123>> \o IntToString(title[2]) \o <<44>>
        \o IntToString(text[2]) \o <<125, 58>>
        \o title[1] \o <<124>> \o text[1]
        \o TimestampSuffix(e, now)[1] \o HostnameSuffix(e)[1]
        \o AggKeySuffix(e)[1] \o PrioritySuffix(e)[1]
        \o SourceTypeNameSuffix(e)[1] \o AlertTypeSuffix(e)[1]

-----------------------------------------------------------------------------
(* The client (src/src/lib.rs).                                            *)

\* ConfigBuilder::new: the default configuration.
ConfigBuilderNew ==
    [from_addr |-> "127.0.0.1:0", to_addr |-> "127.0.0.1:8125",
     namespace |-> <<>>]

\* ConfigBuilder::namespace
ConfigNamespace(config, ns) == [config EXCEPT !.namespace = ns]

\* A metric value with every field present; a kind reads only its own.
Metric(kind, name, ty, amt, value) ==
    [kind |-> kind, name |-> name, ty |-> ty, amt |-> amt, value |-> value]

\* The metric each Client method builds (lines 86-184): inc and dec take no
\* number, arb passes it on, the others pass its decimal text.
ClientMetric(op, name, n) ==
    CASE op = "inc" -> Metric("Inc", name, "i32", 0, <<>>)
      [] op = "dec" -> Metric("Dec", name, "i32", 0, <<>>)
      [] op = "arb" -> Metric("Arb", name, "i32", n, <<>>)
      [] op = "histogram" -> Metric("Histogram", name, "-", 0, IntToString(n))
      [] op = "distribution" ->
            Metric("Distribution", name, "-", 0, IntToString(n))
      [] op = "set" -> Metric("Set", name, "-", 0, IntToString(n))
      [] op = "gauge" -> Metric("Gauge", name, "-", 0, IntToString(n))

IdleTask ==
    [pc |-> "idle", args |-> <<>>, formatted |-> <<>>, sent |-> <<>>,
     ret |-> "-"]

\* A plausible slip: one buffer kept in the Client and shared by its calls,
\* so that a call starts from the bytes of a call still in flight.
SendFormattedSharedBuffer(config, args) ==
    LET inflight == {t \in DOMAIN tasks : tasks[t].pc = "send_to"}
        left == IF inflight = {} THEN <<>>
                ELSE tasks[CHOOSE t \in inflight : TRUE].formatted
    IN [pc |-> "send_to", args |-> Some(args),
        formatted |->
            left \o format_metric(ClientMetric(args.op, args.name, args.n),
                                  config.namespace, args.tags),
        sent |-> <<>>, ret |-> "-"]

\* Client::send up to its await: the datagram is formatted with the
\* client's namespace and the socket write is pending.
SendFormatted(config, args) ==
    [pc |-> "send_to", args |-> Some(args),
     formatted |-> format_metric(ClientMetric(args.op, args.name, args.n),
                                 config.namespace, args.tags),
     sent |-> <<>>, ret |-> "-"]

\* A plausible slip: a failed send swallowed.
SendCompletedSwallow(config, task, result) ==
    [task EXCEPT
        !.pc = "returned",
        !.sent = Append(@, [payload |-> task.formatted,
                            to |-> config.to_addr, result |-> result]),
        !.ret = "Ok"]

\* Client::send from its await on: socket.send_to(..).await? and Ok(()).
\* The socket's error is the call's error; success is Ok.
SendCompleted(config, task, result) ==
    [task EXCEPT
        !.pc = "returned",
        !.sent = Append(@, [payload |-> task.formatted,
                            to |-> config.to_addr, result |-> result]),
        !.ret = IF result = "Ok" THEN "Ok" ELSE result]

-----------------------------------------------------------------------------
(* Inputs.                                                                 *)

\* The latest time the clock reaches, in ticks after the epoch.
MaxClock == 2

\* How many results of format are kept for one value of the Event.
MaxFormats == 2

Titles == { <<67, 104>>,                                 \* "Ch"
            <<233, 8364, 128512>> }                      \* 3 characters, 9 bytes
Texts == { <<66, 105, 103, 32, 67, 104, 117, 110, 103, 117, 233>> }
                                   \* "Big Chungu" and a two-byte character
Timestamps == { UNIX_EPOCH - 1, UNIX_EPOCH,
                UNIX_EPOCH + MaxClock + 1 }
Hostnames == { <<107, 101, 118, 105, 110>> }             \* "kevin"
AggKeys == { <<99, 111, 111, 108>> }                     \* "cool"
Priorities == {"Low", "Normal"}
SourceTypeNames == { <<97, 112, 112>> }                  \* "app"
AlertTypes == {"Error", "Info", "Success", "Warning"}
ClockValues == (UNIX_EPOCH - 1)..(UNIX_EPOCH + MaxClock)

\* The suffix order of the wire format.
OptionalFields ==
    <<"timestamp", "hostname", "agg_key", "priority", "source_type_name",
      "alert_type">>
FieldIndex(f) == CHOOSE i \in 1..Len(OptionalFields) : OptionalFields[i] = f

Names == { <<109>>,                \* "m"
           <<99, 97, 102, 233>> }  \* four characters, five bytes
Namespaces == { <<>>, <<97, 112, 112>> }                 \* "", "app"
CountTypes == {"u8", "i32"}
ArbInputs == { <<"u8", 0>>, <<"u8", 240>>, <<"i32", 5>>, <<"i32", -12>> }
Values == { <<51>>, <<50, 52, 48>>, <<112, 101, 114, 115, 111, 110>> }
                                   \* "3", "240", "person"
ValueKinds == {"Gauge", "Set", "Histogram", "Distribution"}
Metrics ==
    { Metric(k, n, ty, 0, <<>>) : k \in {"Inc", "Dec"}, n \in Names,
                                   ty \in CountTypes }
    \cup { Metric("Arb", n, a[1], a[2], <<>>) : n \in Names, a \in ArbInputs }
    \cup { Metric(k, n, "-", 0, v) : k \in ValueKinds, n \in Names,
                                     v \in Values }
TagLists == { <<>>, << <<97, 58, 98>> >>,
              << <<97, 58, 98>>, <<99, 58, 100>> >> }    \* "a:b", "c:d"

Tasks == {"t1", "t2"}
ClientNames == { <<109>> }
ClientNumbers == {5, -12}
ClientTagLists == { <<>>, << <<97, 58, 98>> >> }
ClientCalls ==
    { [op |-> o, name |-> n, n |-> 0, tags |-> tg] :
        o \in {"inc", "dec"}, n \in ClientNames, tg \in ClientTagLists }
    \cup { [op |-> o, name |-> n, n |-> k, tags |-> tg] :
        o \in {"arb", "histogram", "distribution", "set", "gauge"},
        n \in ClientNames, k \in ClientNumbers, tg \in ClientTagLists }
SendResults == {"Ok", "ConnectionRefused", "NetworkUnreachable"}

-----------------------------------------------------------------------------
(* The state machine.                                                      *)

Init ==
    /\ ev = EventNew
    /\ called = {}
    /\ reordered = FALSE
    /\ clock \in ClockValues
    /\ outs = <<>>
    /\ panicked = FALSE
    /\ built = None
    /\ last = [f \in DOMAIN EventNew |-> None]
    /\ mcall = None
    /\ client = [status |-> "none", config |-> ConfigBuilderNew]
    /\ tasks = [t \in Tasks |-> IdleTask]

\* A setter of an optional field: the field is set, the results of format
\* on the earlier value are dropped.
SetOptional(field, v, e) ==
    /\ ~panicked
    /\ ev' = e
    /\ last' = [last EXCEPT ![field] = Some(v)]
    /\ called' = called \cup {field}
    /\ reordered' = (reordered \/
                        \E g \in called : FieldIndex(g) > FieldIndex(field))
    /\ outs' = <<>>
    /\ UNCHANGED <<clock, panicked, built, mcall, client, tasks>>

SetRequired(field, v, e) ==
    /\ ~panicked
    /\ ev' = e
    /\ last' = [last EXCEPT ![field] = Some(v)]
    /\ outs' = <<>>
    /\ UNCHANGED <<called, reordered, clock, panicked, built, mcall, client,
                   tasks>>

New ==
    /\ ~panicked
    /\ ev' = EventNew
    /\ last' = [f \in DOMAIN EventNew |-> None]
    /\ called' = {}
    /\ reordered' = FALSE
    /\ outs' = <<>>
    /\ UNCHANGED <<clock, panicked, built, mcall, client, tasks>>

Title == \E v \in Titles : SetRequired("title", v, SetTitle(ev, v))
Text == \E v \in Texts : SetRequired("text", v, SetText(ev, v))
Timestamp ==
    \E v \in Timestamps : SetOptional("timestamp", v, SetTimestamp(ev, v))
Hostname == \E v \in Hostnames : SetOptional("hostname", v, SetHostname(ev, v))
AggKey == \E v \in AggKeys : SetOptional("agg_key", v, SetAggKey(ev, v))
Priority ==
    \E v \in Priorities : SetOptional("priority", v, SetPriority(ev, v))
SourceTypeName ==
    \E v \in SourceTypeNames :
        SetOptional("source_type_name", v, SetSourceTypeName(ev, v))
AlertType ==
    \E v \in AlertTypes : SetOptional("alert_type", v, SetAlertType(ev, v))

\* A call of Event::format on ev: it panics, or its result is recorded.
Format ==
    /\ ~panicked
    /\ Len(outs) < MaxFormats
    /\ IF EventFormatPanics(ev, clock)
       THEN panicked' = TRUE /\ outs' = outs
       ELSE /\ outs' = Append(outs, EventFormat(ev, clock))
            /\ panicked' = panicked
    /\ UNCHANGED <<ev, called, reordered, clock, built, last, mcall, client,
                   tasks>>

\* Time passes.
Tick ==
    /\ ~panicked
    /\ clock < UNIX_EPOCH + MaxClock
    /\ clock' = clock + 1
    /\ UNCHANGED <<ev, called, reordered, outs, panicked, built, last, mcall,
                   client, tasks>>

EventNext ==
    \/ New
    \/ Title
    \/ Text
    \/ Timestamp
    \/ Hostname
    \/ AggKey
    \/ Priority
    \/ SourceTypeName
    \/ AlertType
    \/ Format
    \/ Tick

EventSpec == Init /\ [][EventNext]_vars

\* A call of Event::build on ev.  The built Event is a value of its own:
\* no setter of the builder reaches it.
Build ==
    /\ ~panicked
    /\ built' = Some([result |-> EventBuild(ev), builder |-> ev])
    /\ UNCHANGED <<ev, called, reordered, clock, outs, panicked, last, mcall,
                   client, tasks>>

EventFields == DOMAIN EventNew

\* The builder is the one the last build saw, but for one field at most.
NearBuilt ==
    built # None =>
        \E f \in EventFields :
            \A g \in EventFields \ {f} : ev[g] = built[1].builder[g]

\* The values the builder takes around a build: one of each enumeration,
\* a timestamp before the epoch.
BuildInputs ==
    /\ ev.priority \in {None, Some("Low")}
    /\ ev.alert_type \in {None, Some("Error")}
    /\ ev.timestamp \in {None, Some(UNIX_EPOCH - 1)}

AroundBuild == NearBuilt /\ BuildInputs

\* The builder's life around a build: setters before it and after it, with
\* the builder followed after a build as far as one field away from the
\* one that was built.
BuildNext ==
    \/ New /\ AroundBuild'
    \/ Title /\ AroundBuild'
    \/ Text /\ AroundBuild'
    \/ Timestamp /\ AroundBuild'
    \/ Hostname /\ AroundBuild'
    \/ AggKey /\ AroundBuild'
    \/ Priority /\ AroundBuild'
    \/ SourceTypeName /\ AroundBuild'
    \/ AlertType /\ AroundBuild'
    \/ Build
    \/ Format
    \/ Tick

BuildSpec == Init /\ [][BuildNext]_vars

\* A direct call of format_metric, as the crate's tests make them; m is the
\* metric's own write().
FormatMetric ==
    \E metric \in Metrics, ns \in Namespaces, tg \in TagLists :
        /\ mcall' = Some([metric |-> metric, namespace |-> ns, tags |-> tg,
                          m |-> MetricWrite(metric),
                          msg |-> format_metric(metric, ns, tg)])
        /\ UNCHANGED <<eventVars, clientVars>>

MetricNext == FormatMetric

MetricSpec == Init /\ [][MetricNext]_vars

\* Client::with_config: the socket is bound, or the bind's error is returned
\* and there is no Client.
WithConfig ==
    \E ns \in Namespaces, bound \in BOOLEAN :
        /\ client.status = "none"
        /\ client' = [status |-> IF bound THEN "bound" ELSE "failed",
                      config |-> ConfigNamespace(ConfigBuilderNew, ns)]
        /\ UNCHANGED <<eventVars, mcall, tasks>>

\* A task calls a metric method of the Client.
Call(t) ==
    \E args \in ClientCalls :
        /\ client.status = "bound"
        /\ tasks[t].pc = "idle"
        /\ tasks' = [tasks EXCEPT ![t] = SendFormatted(client.config, args)]
        /\ UNCHANGED <<eventVars, mcall, client>>

\* The socket write of a task's call completes.
SendTo(t) ==
    \E result \in SendResults :
        /\ tasks[t].pc = "send_to"
        /\ tasks' = [tasks EXCEPT
                        ![t] = SendCompleted(client.config, tasks[t], result)]
        /\ UNCHANGED <<eventVars, mcall, client>>

\* The caller takes the result; the task is free for its next call.
Return(t) ==
    /\ tasks[t].pc = "returned"
    /\ tasks' = [tasks EXCEPT ![t] = IdleTask]
    /\ UNCHANGED <<eventVars, mcall, client>>

ClientNext ==
    \/ WithConfig
    \/ \E t \in Tasks : Call(t)
    \/ \E t \in Tasks : SendTo(t)
    \/ \E t \in Tasks : Return(t)

ClientSpec == Init /\ [][ClientNext]_vars

-----------------------------------------------------------------------------
(* Properties.                                                             *)

IsPrefix(p, s) == Len(p) <= Len(s) /\ SubSeq(s, 1, Len(p)) = p
IsSuffix(p, s) == Len(p) <= Len(s) /\ SubSeq(s, Len(s) - Len(p) + 1, Len(s)) = p
Contains(s, p) ==
    \E i \in 1..(Len(s) - Len(p) + 1) : SubSeq(s, i, i + Len(p) - 1) = p

\* The number of bytes UTF-8 takes for a code point.
Utf8Width(c) ==
    IF c < 128 THEN 1 ELSE IF c < 2048 THEN 2 ELSE IF c < 65536 THEN 3 ELSE 4

RECURSIVE ByteCount(_)
ByteCount(s) == IF s = <<>> THEN 0 ELSE Utf8Width(Head(s)) + ByteCount(Tail(s))

RECURSIVE DigitsValue(_)
DigitsValue(ds) ==
    IF ds = <<>> THEN 0
    ELSE 10 * DigitsValue(SubSeq(ds, 1, Len(ds) - 1)) + (ds[Len(ds)] - 48)

\* text is the canonical base-10 text of n: a minus sign exactly when n is
\* negative, then digits with no leading zero.
CanonicalDecimal(text, n) ==
    LET neg == text # <<>> /\ text[1] = 45
        ds == IF neg THEN Tail(text) ELSE text
    IN /\ ds # <<>>
       /\ \A i \in 1..Len(ds) : ds[i] \in 48..57
       /\ Len(ds) > 1 => ds[1] # 48
       /\ neg <=> n < 0
       /\ DigitsValue(ds) = IF n < 0 THEN -n ELSE n

\* The head of an event line, _e{<title bytes>,<text bytes>}:<title>|<text>
EventHead(e) ==
    <<95, 101, 123>> \o IntToString(ByteCount(e.title)) \o <<44>>
        \o IntToString(ByteCount(e.text)) \o <<125, 58>>
        \o e.title \o <<124>> \o e.text

\* The suffix a set field has on the wire, nothing for a field not set.
WireSuffix(e, field, at) ==
    CASE field = "timestamp" ->
            IF e.timestamp = None THEN <<>>
            ELSE SystemTimeFormat(e.timestamp[1], at)
      [] field = "hostname" ->
            IF e.hostname = None THEN <<>> ELSE HostnameFormat(e.hostname[1])
      [] field = "agg_key" ->
            IF e.agg_key = None THEN <<>> ELSE AggKeyFormat(e.agg_key[1])
      [] field = "priority" ->
            IF e.priority = None THEN <<>> ELSE PriorityFormat(e.priority[1])
      [] field = "source_type_name" ->
            IF e.source_type_name = None THEN <<>>
            ELSE SourceTypeNameFormat(e.source_type_name[1])
      [] field = "alert_type" ->
            IF e.alert_type = None THEN <<>>
            ELSE AlertTypeFormat(e.alert_type[1])

\* The marker that opens a field's suffix.
Marker(field) ==
    CASE field = "timestamp" -> <<124, 100, 58>>
      [] field = "hostname" -> <<124, 104, 58>>
      [] field = "agg_key" -> <<124, 107, 58>>
      [] field = "priority" -> <<124, 112, 58>>
      [] field = "source_type_name" -> <<124, 115, 58>>
      [] field = "alert_type" -> <<124, 116, 58>>

\* C1: whatever the order the setters were called in, Event::format emits
\* the head and then the suffixes of the set fields in the order timestamp,
\* hostname, aggregation key, priority, source type name, alert type.
C1_SuffixOrder ==
    \A i \in 1..Len(outs) :
        \E at \in ClockValues :
            /\ at <= clock
            /\ outs[i] =
                EventHead(ev)
                    \o Flatten([k \in 1..Len(OptionalFields) |->
                                  WireSuffix(ev, OptionalFields[k], at)])

\* All six optional fields set, by setters called out of the wire order,
\* and the event formatted.
C1_Witness ==
    /\ reordered
    /\ called = {OptionalFields[k] : k \in 1..Len(OptionalFields)}
    /\ outs # <<>>

\* C2: the two numbers inside _e{...} are the UTF-8 byte lengths of the
\* title and the text as emitted, not their character counts; an empty title
\* and text give _e{0,0}:
C2_ByteLengths ==
    \A i \in 1..Len(outs) :
        /\ IsPrefix(<<95, 101, 123>> \o IntToString(ByteCount(ev.title))
                        \o <<44>> \o IntToString(ByteCount(ev.text))
                        \o <<125, 58>> \o ev.title \o <<124>> \o ev.text,
                    outs[i])
        /\ (ev.title = <<>> /\ ev.text = <<>>) =>
                IsPrefix(<<95, 101, 123, 48, 44, 48, 125, 58>>, outs[i])

\* An event formatted whose title and text both hold multi-byte characters.
C2_Witness ==
    /\ outs # <<>>
    /\ ByteCount(ev.title) > Len(ev.title)
    /\ ByteCount(ev.text) > Len(ev.text)

\* The one type character of each kind of metric.
TypeChar(kind) ==
    CASE kind \in CountKinds -> 99
      [] kind = "Gauge" -> 103
      [] kind = "Set" -> 115
      [] kind = "Histogram" -> 104
      [] kind = "Distribution" -> 100

\* C3: Metric::write yields <name>:<value>|<type> and nothing after it: 1 and
\* c for Inc, -1 and c for Dec whatever the integer type, the canonical
\* decimal text of n and c for Arb(n), and the value verbatim with g, s, h, d
\* for Gauge, Set, Histogram, Distribution.
C3_MetricWrite ==
    mcall # None =>
        LET metric == mcall[1].metric
            m == mcall[1].m
            name == metric.name
            value == SubSeq(m, Len(name) + 2, Len(m) - 2)
        IN /\ Len(m) >= Len(name) + 3
           /\ IsPrefix(name \o <<58>>, m)
           /\ IsSuffix(<<124, TypeChar(metric.kind)>>, m)
           /\ CASE metric.kind = "Inc" -> value = <<49>>
                [] metric.kind = "Dec" -> value = <<45, 49>>
                [] metric.kind = "Arb" -> CanonicalDecimal(value, metric.amt)
                [] OTHER -> value = metric.value

\* A decrement of a count over an unsigned type, written.
C3_Witness ==
    /\ mcall # None
    /\ mcall[1].metric.kind = "Dec"
    /\ mcall[1].metric.ty = "u8"

\* C4: format_metric starts the line with <namespace>. when the namespace is
\* not empty and with nothing when it is empty, and the bytes after that are
\* the metric's own write() output.
C4_NamespacePrefix ==
    mcall # None =>
        LET c == mcall[1]
            prefix == IF c.namespace = <<>> THEN <<>>
                      ELSE AsBytes(c.namespace) \o <<46>>
        IN /\ IsPrefix(prefix \o AsBytes(c.m), c.msg)
           /\ c.tags = <<>> => c.msg = prefix \o AsBytes(c.m)
           /\ c.namespace = <<>> => c.msg[1] # 46

\* A metric formatted with the empty namespace.
C4_Witness ==
    /\ mcall # None
    /\ mcall[1].namespace = <<>>
    /\ mcall[1].msg # <<>>

RECURSIVE JoinTags(_)
JoinTags(tags) ==
    IF Len(tags) = 1 THEN AsBytes(tags[1])
    ELSE AsBytes(tags[1]) \o <<44>> \o JoinTags(Tail(tags))

\* The tag suffix of the wire format: nothing, or |# and the tags joined by
\* commas.
TagSuffix(tags) == IF tags = <<>> THEN <<>> ELSE <<124, 35>> \o JoinTags(tags)

\* C5: format_metric appends nothing for no tags, and for tags |# and then
\* the tags, each key:value, joined by commas in input order.
C5_TagSuffix ==
    mcall # None =>
        mcall[1].msg = NamespacePrefix(mcall[1].namespace)
                           \o AsBytes(mcall[1].m) \o TagSuffix(mcall[1].tags)

C7_FormatTwiceSame ==
    \A i, j \in 1..Len(outs) : outs[i] = outs[j]

\* C8: a Client metric call makes exactly one socket send attempt, of the
\* formatted datagram; it returns the socket's error when the send fails
\* and Ok when it succeeds.
C8_OneSendErrorPropagated ==
    \A t \in Tasks :
        LET task == tasks[t]
        IN /\ task.pc = "send_to" => task.sent = <<>>
           /\ task.pc = "returned" =>
                /\ Len(task.sent) = 1
                /\ task.sent[1].payload =
                      format_metric(
                          ClientMetric(task.args[1].op, task.args[1].name,
                                       task.args[1].n),
                          client.config.namespace, task.args[1].tags)
                /\ task.sent[1].to = client.config.to_addr
                /\ task.ret = task.sent[1].result

\* A call returned after its send failed.
C8_Witness ==
    \E t \in Tasks :
        /\ tasks[t].pc = "returned"
        /\ tasks[t].sent # <<>>
        /\ tasks[t].sent[1].result = "ConnectionRefused"

\* C9: an Event carries an optional collection of tags, and when tags are
\* present Event::format ends the line with their |#k1:v1,k2:v2 suffix.
C9_EventTags ==
    \A i \in 1..Len(outs) :
        /\ "tags" \in DOMAIN ev
        /\ ev.tags # None => IsSuffix(TagSuffix(ev.tags[1]), outs[i])

\* C10: the timestamp suffix is |d:<n>, n the whole seconds from the epoch
\* to the timestamp, or the seconds the clock read at a call when the
\* timestamp is before the epoch; rendering never panics.
C10_TimestampSuffix ==
    /\ ~panicked
    /\ \A i \in 1..Len(outs) :
        ev.timestamp # None =>
            LET ts == ev.timestamp[1]
                ns == IF ts >= UNIX_EPOCH
                      THEN {(ts - UNIX_EPOCH) \div TicksPerSec}
                      ELSE {(at - UNIX_EPOCH) \div TicksPerSec :
                              at \in {c \in ClockValues :
                                         UNIX_EPOCH <= c /\ c <= clock}}
            IN \E n \in ns :
                LET d == EventHead(ev) \o <<124, 100, 58>> \o NatToString(n)
                IN /\ IsPrefix(d, outs[i])
                   /\ Len(outs[i]) > Len(d) => outs[i][Len(d) + 1] = 124

\* What a call of format gives for an event at a reading of the clock.
FormatResult(e, now) ==
    IF EventFormatPanics(e, now) THEN "panic" ELSE EventFormat(e, now)

\* C11: Event::build returns Ok for every builder; the built Event formats
\* as the builder it was built from does, at the moment of the build and
\* at every later one, whatever setters are called on the builder
\* afterwards.
C11_BuildFreezes ==
    built # None =>
        /\ built[1].result.ok
        /\ FormatResult(built[1].result.event, clock)
                = FormatResult(built[1].builder, clock)

\* A built Event with an aggregation key whose builder has since been given
\* another title.
C11_Witness ==
    /\ built # None
    /\ built[1].builder.agg_key # None
    /\ built[1].builder.timestamp # None
    /\ ev.title # built[1].builder.title

\* The datagram of a call made on its own on a Client of namespace ns.
AloneDatagram(args, ns) ==
    format_metric(ClientMetric(args.op, args.name, args.n), ns, args.tags)

\* C12: however the calls of tasks sharing one Client interleave, each call
\* sends exactly one datagram, which is the one the call gives on its own,
\* and no step of a call changes the Client's configuration.
C12_ConcurrentCallsIsolated ==
    [][/\ client.status = "bound" => client' = client
       /\ \A t \in Tasks :
            LET task == tasks'[t]
            IN /\ task.pc = "send_to" =>
                    /\ task.sent = <<>>
                    /\ task.formatted =
                          AloneDatagram(task.args[1], client'.config.namespace)
               /\ task.pc = "returned" =>
                    /\ Len(task.sent) = 1
                    /\ task.sent[1].payload =
                          AloneDatagram(task.args[1], client'.config.namespace)
      ]_vars

\* One call returned while another call, of another metric, is in flight on
\* the same Client.
C12_Witness ==
    /\ client.config.namespace # <<>>
    /\ tasks["t1"].pc = "returned"
    /\ tasks["t2"].pc = "send_to"
    /\ tasks["t1"].sent[1].payload # tasks["t2"].formatted

\* The event that holds, for each field, the value last given to its
\* setter, and Event::new's value where the setter was never called.
LastGiven ==
    [f \in DOMAIN EventNew |->
        IF last[f] = None THEN EventNew[f]
        ELSE IF f \in {"title", "text"} THEN last[f][1]
        ELSE last[f]]

====
